---- MODULE Spec2Model ----
(***************************************************************************)
(* Model of the Polkadot CLI library (cli/src/lib.rs): the command         *)
(* dispatch of run(), NodeRun::run_until, OtherRun::run_until and the      *)
(* shutdown protocol of run_until_exit.                                    *)
(*                                                                         *)
(* One invocation of the program is one behaviour: Init is the state right *)
(* after cli::parse_and_prepare has produced a command, and pc is the      *)
(* position of the invoking thread.  The node's completion future, the     *)
(* exit trigger and the informant task are the environment: they become    *)
(* ready on their own, concurrently with the invoking thread.              *)
(***************************************************************************)
EXTENDS Naturals, Sequences, FiniteSets

\* Bound on the number of polls of the race that find neither side ready.
MaxPolls == 2

(***************************************************************************)
(* Value domains                                                           *)
(***************************************************************************)
\* cli::ParseAndPrepare variants matched by run().
Commands ==
    {"Run", "BuildSpec", "ExportBlocks", "ImportBlocks", "PurgeChain",
     "RevertChain", "CustomCommand_ValidationWorker"}

\* ValidationWorkerCommand::mem_id values.
MemIds == {"mem0", "mem1"}

\* service::Roles values a configuration can carry.
RolesValues == {"FULL", "LIGHT", "AUTHORITY"}

\* service::CustomConfiguration values (Default::default() and another one).
CustomValues == {"default", "worker"}

\* Chain specification identifiers handed to load_spec.
SpecIds == {"dev", "local", "unknown-id"}

\* Identifiers ChainSpec::from recognises.
KnownIds == {"dev", "local"}

\* What a future yields when polled.
Readiness == {"pending", "ok", "err"}

None == "None"

(***************************************************************************)
(* State                                                                   *)
(***************************************************************************)
VARIABLES
    cmd,            \* the parsed command: [variant, mem_id]
    spec_id,        \* the chain specification id of the command line
    spec_data,      \* "good" or "corrupt": whether a known spec loads
    loaded,         \* what the call of load_spec returned: [ok, val]
    custom_config,  \* argument of NodeRun::run_until
    config,         \* the Configuration: [chain_spec, name, roles, custom]
    ctor_config,    \* the configuration a node constructor received
    run_obj,        \* the Run value returned by run()
    pc,             \* position of the invoking thread
    runtime,        \* tokio Runtime: "none", "running", "failed", "dropped"
    ctor_outcome,   \* environment: whether the constructor called (new_full,
                    \* new_light or new_chain_ops) succeeds
    op_outcome,     \* environment: whether the one-shot operation succeeds
    service,        \* node completion future: [kind, ready, life, polls]
    until,          \* exit trigger: [ready, life, polls]
    signal,         \* exit_future::signal(): [created, fired, fires]
    informant,      \* informant task: "none", "running", "stopped", "dropped"
    telemetry,      \* telemetry guard: "none", "held", "released"
    race,           \* outcome of block_on(select): [winner, result, loser_polls]
    executed,       \* execution paths entered, as a function to counts
    worker_arg,     \* mem_id handed to run_validation_worker
    trace,          \* collaborator calls and shutdown events, in order
    result          \* what run_until returned to the caller

vars == <<cmd, spec_id, spec_data, loaded, custom_config, config, ctor_config, run_obj,
          pc, runtime, ctor_outcome, op_outcome, service, until, signal, informant,
          telemetry, race, executed, worker_arg, trace, result>>

Paths == {"RunNode", "OneShot", "ValidationWorker"}

\* Number of occurrences of event e in sequence s.
Count(s, e) == Cardinality({i \in 1..Len(s) : s[i] = e})

\* Position of the first occurrence of e in s, 0 when absent.
FirstIndex(s, e) ==
    IF \E i \in 1..Len(s) : s[i] = e
    THEN CHOOSE i \in 1..Len(s) : s[i] = e /\ \A j \in 1..(i-1) : s[j] # e
    ELSE 0

\* e1 and e2 both occur, and the first e1 precedes the first e2.
Before(s, e1, e2) ==
    /\ FirstIndex(s, e1) > 0
    /\ FirstIndex(s, e2) > 0
    /\ FirstIndex(s, e1) < FirstIndex(s, e2)

(***************************************************************************)
(* Pure functions                                                          *)
(***************************************************************************)
\* chain_spec::ChainSpec::from(id): Some(spec) for a known id, else None.
ChainSpec_from(id) == IF id \in KnownIds THEN id ELSE None

\* ChainSpec::load(): Ok(spec) or Err.
ChainSpec_load(spec, data) ==
    IF data = "good" THEN [ok |-> TRUE, val |-> spec]
    ELSE [ok |-> FALSE, val |-> "load_failed"]

\* Variant of load_spec: a failed load is turned into "no specification".
load_spec_lenient(id, data) ==
    IF ChainSpec_from(id) = None
    THEN [ok |-> TRUE, val |-> None]
    ELSE LET l == ChainSpec_load(ChainSpec_from(id), data)
         IN  IF l.ok THEN [ok |-> TRUE, val |-> l.val]
             ELSE [ok |-> TRUE, val |-> None]

\* load_spec(id): Ok(None), Ok(Some(spec)) or Err.
load_spec(id, data) ==
    IF ChainSpec_from(id) = None
    THEN [ok |-> TRUE, val |-> None]
    ELSE LET l == ChainSpec_load(ChainSpec_from(id), data)
         IN  IF l.ok THEN [ok |-> TRUE, val |-> l.val]
             ELSE [ok |-> FALSE, val |-> l.val]

\* Variant of RunOf: the PurgeChain arm builds the Revert command.
RunOf_purge_as_revert(c) ==
    CASE c.variant = "Run"          -> [kind |-> "Node",  inner |-> "Run"]
      [] c.variant = "BuildSpec"    -> [kind |-> "Other", inner |-> "BuildSpec"]
      [] c.variant = "ExportBlocks" -> [kind |-> "Other", inner |-> "Export"]
      [] c.variant = "ImportBlocks" -> [kind |-> "Other", inner |-> "Import"]
      [] c.variant = "PurgeChain"   -> [kind |-> "Other", inner |-> "Revert"]
      [] c.variant = "RevertChain"  -> [kind |-> "Other", inner |-> "Revert"]
      [] c.variant = "CustomCommand_ValidationWorker"
                                    -> [kind |-> "Other", inner |-> "ValidationWorker"]

\* The match of run(): which Run value a ParseAndPrepare variant becomes.
RunOf(c) ==
    CASE c.variant = "Run"          -> [kind |-> "Node",  inner |-> "Run"]
      [] c.variant = "BuildSpec"    -> [kind |-> "Other", inner |-> "BuildSpec"]
      [] c.variant = "ExportBlocks" -> [kind |-> "Other", inner |-> "Export"]
      [] c.variant = "ImportBlocks" -> [kind |-> "Other", inner |-> "Import"]
      [] c.variant = "PurgeChain"   -> [kind |-> "Other", inner |-> "Purge"]
      [] c.variant = "RevertChain"  -> [kind |-> "Other", inner |-> "Revert"]
      [] c.variant = "CustomCommand_ValidationWorker"
                                    -> [kind |-> "Other", inner |-> "ValidationWorker"]

\* Variant of ConstructorFor: only FULL builds a full node.
ConstructorFor_only_full(roles) ==
    IF roles = "FULL" THEN "new_full" ELSE "new_light"

\* The match on config.roles of NodeRun::run_until: the constructor called.
ConstructorFor(roles) == IF roles = "LIGHT" THEN "new_light" ELSE "new_full"

(***************************************************************************)
(* Initial state: the command has been parsed, nothing has run.            *)
(***************************************************************************)
Init ==
    /\ cmd \in {c \in [variant : Commands, mem_id : MemIds \cup {None}] :
                  (c.variant = "CustomCommand_ValidationWorker") <=> (c.mem_id # None)}
    /\ spec_id \in SpecIds
    /\ spec_data \in {"good", "corrupt"}
    /\ loaded = [ok |-> FALSE, val |-> "not_called"]
    /\ custom_config \in CustomValues
    /\ config \in [chain_spec : {spec_id}, name : {"node"},
                   roles : RolesValues, custom : CustomValues]
    /\ ctor_config = [chain_spec |-> None, name |-> None,
                      roles |-> None, custom |-> None]
    /\ run_obj = [kind |-> None, inner |-> None]
    /\ pc = "parsed"
    /\ runtime = "none"
    /\ ctor_outcome \in {"ok", "err"}
    /\ op_outcome \in {"ok", "err"}
    /\ service = [kind |-> None, ready |-> "pending", life |-> "none", polls |-> 0]
    /\ until \in [ready : Readiness, life : {"trigger"}, polls : {0}]
    /\ signal = [created |-> FALSE, fired |-> FALSE, fires |-> 0]
    /\ informant = "none"
    /\ telemetry = "none"
    /\ race = [winner |-> None, result |-> None, loser_polls |-> 0]
    /\ executed = [p \in Paths |-> 0]
    /\ worker_arg = None
    /\ trace = <<>>
    /\ result = None

(***************************************************************************)
(* run(): lines 122-154                                                    *)
(***************************************************************************)
run ==
    /\ pc = "parsed"
    /\ run_obj' = RunOf(cmd)
    /\ pc' = "dispatched"
    /\ UNCHANGED <<cmd, spec_id, spec_data, loaded, custom_config, config, ctor_config,
                   runtime, ctor_outcome, op_outcome, service, until, signal, informant,
                   telemetry, race, executed, worker_arg, trace, result>>

(***************************************************************************)
(* NodeRun::run_until: lines 158-187                                       *)
(***************************************************************************)
\* Line 164: self.inner.run(load_spec, until, closure) resolves the chain
\* specification with load_spec before it calls the closure.
NodeRun_run_until ==
    /\ pc = "dispatched"
    /\ run_obj.kind = "Node"
    /\ executed' = [executed EXCEPT !["RunNode"] = @ + 1]
    /\ trace' = Append(trace, "load_spec")
    /\ loaded' = load_spec(spec_id, spec_data)
    /\ IF load_spec(spec_id, spec_data).ok
       THEN /\ pc' = "closure"
            /\ result' = result
       ELSE /\ pc' = "done"
            /\ result' = "Err_Spec"
    /\ UNCHANGED <<cmd, spec_id, spec_data, custom_config, config, ctor_config,
                   run_obj, runtime, ctor_outcome, op_outcome, service, until, signal,
                   informant, telemetry, race, worker_arg>>

\* Variant of NodeRun_closure: the assignment of line 171 is missing.
NodeRun_closure_keep_custom ==
    /\ pc = "closure"
    /\ \E created \in BOOLEAN :
          IF created
          THEN /\ runtime' = "running"
               /\ pc' = "match_roles"
               /\ result' = result
          ELSE /\ runtime' = "failed"
               /\ pc' = "done"
               /\ result' = "Err_Runtime"
    /\ trace' = Append(trace, "Runtime::new")
    /\ UNCHANGED <<cmd, spec_id, spec_data, loaded, custom_config, config,
                   ctor_config, run_obj, ctor_outcome, op_outcome, service,
                   until, signal, informant, telemetry, race, executed,
                   worker_arg>>

\* Lines 165-172: the closure stores custom_config and creates the runtime.
NodeRun_closure ==
    /\ pc = "closure"
    /\ config' = [config EXCEPT !.custom = custom_config]
    /\ \E created \in BOOLEAN :
          IF created
          THEN /\ runtime' = "running"
               /\ pc' = "match_roles"
               /\ result' = result
          ELSE /\ runtime' = "failed"
               /\ pc' = "done"
               /\ result' = "Err_Runtime"
    /\ trace' = Append(trace, "Runtime::new")
    /\ UNCHANGED <<cmd, spec_id, spec_data, loaded, custom_config, ctor_config, run_obj,
                   ctor_outcome, op_outcome, service, until, signal, informant, telemetry,
                   race, executed, worker_arg>>

\* Variant of NodeRun_construct: a failed constructor falls back to the other
\* one and the shutdown protocol is entered with its node.
NodeRun_construct_fallback ==
    /\ pc = "match_roles"
    /\ ctor_config' = config
    /\ IF ctor_outcome = "ok"
       THEN /\ trace' = Append(trace, ConstructorFor(config.roles))
            /\ service' = [service EXCEPT !.kind = ConstructorFor(config.roles),
                                          !.life = "alive"]
       ELSE /\ trace' = trace \o <<ConstructorFor(config.roles),
                                   IF ConstructorFor(config.roles) = "new_light"
                                   THEN "new_full" ELSE "new_light">>
            /\ service' = [service EXCEPT
                             !.kind = IF ConstructorFor(config.roles) = "new_light"
                                      THEN "new_full" ELSE "new_light",
                             !.life = "alive"]
    /\ pc' = "rue_signal"
    /\ UNCHANGED <<cmd, spec_id, spec_data, loaded, custom_config, config, run_obj,
                   runtime, result, ctor_outcome, op_outcome, until, signal,
                   informant, telemetry, race, executed, worker_arg>>

\* Lines 173-184: the match on config.roles calls one constructor; `?` returns
\* its error, otherwise run_until_exit is entered with the node.
NodeRun_construct ==
    /\ pc = "match_roles"
    /\ trace' = Append(trace, ConstructorFor(config.roles))
    /\ ctor_config' = config
    /\ IF ctor_outcome = "ok"
       THEN /\ service' = [service EXCEPT !.kind = ConstructorFor(config.roles),
                                          !.life = "alive"]
            /\ pc' = "rue_signal"
            /\ UNCHANGED <<runtime, result>>
       ELSE /\ runtime' = "dropped"
            /\ pc' = "done"
            /\ result' = "Err_Construction"
            /\ UNCHANGED service
    /\ UNCHANGED <<cmd, spec_id, spec_data, loaded, custom_config, config, run_obj,
                   ctor_outcome, op_outcome, until, signal, informant, telemetry, race,
                   executed, worker_arg>>

(***************************************************************************)
(* run_until_exit: lines 210-239                                           *)
(***************************************************************************)
\* Line 223: let (exit_send, exit) = exit_future::signal();
rue_signal ==
    /\ pc = "rue_signal"
    /\ signal' = [signal EXCEPT !.created = TRUE]
    /\ trace' = Append(trace, "signal")
    /\ pc' = "rue_informant"
    /\ UNCHANGED <<cmd, spec_id, spec_data, loaded, custom_config, config, ctor_config,
                   run_obj, runtime, ctor_outcome, op_outcome, service, until, informant,
                   telemetry, race, executed, worker_arg, result>>

\* Variant of rue_informant: the informant is built but never spawned.
rue_informant_not_spawned ==
    /\ pc = "rue_informant"
    /\ pc' = "rue_telemetry"
    /\ UNCHANGED <<cmd, spec_id, spec_data, loaded, custom_config, config,
                   ctor_config, run_obj, runtime, ctor_outcome, op_outcome,
                   service, until, signal, informant, telemetry, race,
                   executed, worker_arg, trace, result>>

\* Lines 225-226: the informant is built and spawned, bound to `exit`.
rue_informant ==
    /\ pc = "rue_informant"
    /\ informant' = "running"
    /\ trace' = Append(trace, "spawn_informant")
    /\ pc' = "rue_telemetry"
    /\ UNCHANGED <<cmd, spec_id, spec_data, loaded, custom_config, config, ctor_config,
                   run_obj, runtime, ctor_outcome, op_outcome, service, until, signal,
                   telemetry, race, executed, worker_arg, result>>

\* Variant of rue_telemetry: the guard is bound to `_` and so dropped at once.
rue_telemetry_unbound ==
    /\ pc = "rue_telemetry"
    /\ telemetry' = "released"
    /\ trace' = trace \o <<"telemetry", "drop_telemetry">>
    /\ pc' = "rue_select"
    /\ UNCHANGED <<cmd, spec_id, spec_data, loaded, custom_config, config, ctor_config,
                   run_obj, runtime, ctor_outcome, op_outcome, service, until,
                   signal, informant, race, executed, worker_arg, result>>

\* Line 230: let _telemetry = service.telemetry(); the guard lives to the end
\* of the function.
rue_telemetry ==
    /\ pc = "rue_telemetry"
    /\ telemetry' = "held"
    /\ trace' = Append(trace, "telemetry")
    /\ pc' = "rue_select"
    /\ UNCHANGED <<cmd, spec_id, spec_data, loaded, custom_config, config, ctor_config,
                   run_obj, runtime, ctor_outcome, op_outcome, service, until, signal,
                   informant, race, executed, worker_arg, result>>

\* Lines 232-234: until.into_exit() and the select of the two futures.
rue_select ==
    /\ pc = "rue_select"
    /\ until' = [until EXCEPT !.life = "exit_future"]
    /\ trace' = Append(trace, "into_exit")
    /\ pc' = "rue_block_on"
    /\ UNCHANGED <<cmd, spec_id, spec_data, loaded, custom_config, config, ctor_config,
                   run_obj, runtime, ctor_outcome, op_outcome, service, signal, informant,
                   telemetry, race, executed, worker_arg, result>>

\* Variant of SelectPoll: a join, which resolves only when both sides are ready.
SelectPoll_join(a, b) ==
    IF a = "pending" \/ b = "pending"
    THEN [winner |-> None, result |-> None, polled_b |-> TRUE]
    ELSE IF a = "err"
    THEN [winner |-> "service", result |-> "Err_Service", polled_b |-> TRUE]
    ELSE IF b = "err"
    THEN [winner |-> "exit", result |-> "Err_Other", polled_b |-> TRUE]
    ELSE [winner |-> "service", result |-> "Ok", polled_b |-> TRUE]

\* One poll of service.select(exit) with the error wrapping of lines 232-233:
\* the service is polled first, the exit future only when the service is not
\* ready.  winner = None means NotReady.
SelectPoll(a, b) ==
    IF a = "ok" THEN [winner |-> "service", result |-> "Ok", polled_b |-> FALSE]
    ELSE IF a = "err"
    THEN [winner |-> "service", result |-> "Err_Service", polled_b |-> FALSE]
    ELSE IF b = "ok" THEN [winner |-> "exit", result |-> "Ok", polled_b |-> TRUE]
    ELSE IF b = "err"
    THEN [winner |-> "exit", result |-> "Err_Other", polled_b |-> TRUE]
    ELSE [winner |-> None, result |-> None, polled_b |-> TRUE]

\* Variant of rue_block_on: the race borrows the service, which stays alive
\* after the race has resolved.
rue_block_on_by_ref ==
    /\ pc = "rue_block_on"
    /\ LET p == SelectPoll(service.ready, until.ready)
           pb == IF p.polled_b THEN 1 ELSE 0
       IN  IF p.winner = None
           THEN /\ service.polls < MaxPolls
                /\ service' = [service EXCEPT !.polls = @ + 1]
                /\ until' = [until EXCEPT !.polls = @ + pb]
                /\ UNCHANGED <<race, trace, pc>>
           ELSE /\ service' = [service EXCEPT !.polls = @ + 1]
                /\ until' = [until EXCEPT
                     !.polls = @ + pb,
                     !.life = IF p.winner = "exit" THEN "consumed" ELSE "dropped"]
                /\ race' = [winner |-> p.winner, result |-> p.result,
                            loser_polls |-> IF p.winner = "service"
                                            THEN until.polls + pb
                                            ELSE service.polls + 1]
                /\ trace' = Append(trace, "race_resolved")
                /\ pc' = "rue_fire"
    /\ UNCHANGED <<cmd, spec_id, spec_data, loaded, custom_config, config,
                   ctor_config, run_obj, runtime, ctor_outcome, op_outcome,
                   signal, informant, telemetry, executed, worker_arg, result>>

\* Line 235: runtime.block_on(select).  A poll that resolves the race consumes
\* the winner and drops the loser; a poll that finds nothing ready blocks.
rue_block_on ==
    /\ pc = "rue_block_on"
    /\ LET p == SelectPoll(service.ready, until.ready)
           pb == IF p.polled_b THEN 1 ELSE 0
       IN  IF p.winner = None
           THEN /\ service.polls < MaxPolls
                /\ service' = [service EXCEPT !.polls = @ + 1]
                /\ until' = [until EXCEPT !.polls = @ + pb]
                /\ UNCHANGED <<race, trace, pc>>
           ELSE /\ service' = [service EXCEPT
                     !.polls = @ + 1,
                     !.life = IF p.winner = "service" THEN "consumed" ELSE "dropped"]
                /\ until' = [until EXCEPT
                     !.polls = @ + pb,
                     !.life = IF p.winner = "exit" THEN "consumed" ELSE "dropped"]
                /\ race' = [winner |-> p.winner, result |-> p.result,
                            loser_polls |-> IF p.winner = "service"
                                            THEN until.polls + pb
                                            ELSE service.polls + 1]
                /\ trace' = Append(trace, "race_resolved")
                /\ pc' = "rue_fire"
    /\ UNCHANGED <<cmd, spec_id, spec_data, loaded, custom_config, config, ctor_config,
                   run_obj, runtime, ctor_outcome, op_outcome, signal, informant, telemetry,
                   executed, worker_arg, result>>

\* Variant of rue_fire: the signal is fired only when the race yielded Ok.
rue_fire_on_ok ==
    /\ pc = "rue_fire"
    /\ IF race.result = "Ok"
       THEN /\ signal' = [signal EXCEPT !.fired = TRUE, !.fires = @ + 1]
            /\ trace' = Append(trace, "fire")
       ELSE UNCHANGED <<signal, trace>>
    /\ pc' = "rue_return"
    /\ UNCHANGED <<cmd, spec_id, spec_data, loaded, custom_config, config, ctor_config,
                   run_obj, runtime, ctor_outcome, op_outcome, service, until,
                   informant, telemetry, race, executed, worker_arg, result>>

\* Line 236: exit_send.fire();
rue_fire ==
    /\ pc = "rue_fire"
    /\ signal' = [signal EXCEPT !.fired = TRUE, !.fires = @ + 1]
    /\ trace' = Append(trace, "fire")
    /\ pc' = "rue_return"
    /\ UNCHANGED <<cmd, spec_id, spec_data, loaded, custom_config, config, ctor_config,
                   run_obj, runtime, ctor_outcome, op_outcome, service, until, informant,
                   telemetry, race, executed, worker_arg, result>>

\* Variant of run_until_exit_result: the outcome of the race is returned.
run_until_exit_result_propagate(race_result) == race_result

\* Lines 235 and 238: `let _ =` discards the outcome of the race and the
\* function returns Ok(()).
run_until_exit_result(race_result) == "Ok"

\* Variant of rue_return: returning replaces the fired signal by a fresh one.
rue_return_fresh_signal ==
    /\ pc = "rue_return"
    /\ telemetry' = "released"
    /\ signal' = [signal EXCEPT !.fired = FALSE]
    /\ trace' = Append(trace, "drop_telemetry")
    /\ pc' = "rue_drop_runtime"
    /\ UNCHANGED <<cmd, spec_id, spec_data, loaded, custom_config, config,
                   ctor_config, run_obj, runtime, ctor_outcome, op_outcome,
                   service, until, informant, race, executed, worker_arg,
                   result>>

\* Line 238-239: the function returns; _telemetry is the first local dropped.
rue_return ==
    /\ pc = "rue_return"
    /\ telemetry' = "released"
    /\ trace' = Append(trace, "drop_telemetry")
    /\ pc' = "rue_drop_runtime"
    /\ UNCHANGED <<cmd, spec_id, spec_data, loaded, custom_config, config, ctor_config,
                   run_obj, runtime, ctor_outcome, op_outcome, service, until, signal,
                   informant, race, executed, worker_arg, result>>

\* Variant of rue_drop_runtime: the runtime is not owned by run_until_exit and
\* so survives its return, with the tasks spawned on it.
rue_drop_runtime_leak ==
    /\ pc = "rue_drop_runtime"
    /\ result' = run_until_exit_result(race.result)
    /\ pc' = "done"
    /\ UNCHANGED <<cmd, spec_id, spec_data, loaded, custom_config, config,
                   ctor_config, run_obj, runtime, ctor_outcome, op_outcome,
                   service, until, signal, informant, telemetry, race,
                   executed, worker_arg, trace>>

\* Line 239: the runtime parameter is dropped last, which shuts the runtime
\* down together with any task still spawned on it; the result goes through
\* the map_err of line 185 back to the caller of NodeRun::run_until.
rue_drop_runtime ==
    /\ pc = "rue_drop_runtime"
    /\ runtime' = "dropped"
    /\ informant' = IF informant = "running" THEN "dropped" ELSE informant
    /\ trace' = Append(trace, "drop_runtime")
    /\ result' = run_until_exit_result(race.result)
    /\ pc' = "done"
    /\ UNCHANGED <<cmd, spec_id, spec_data, loaded, custom_config, config, ctor_config,
                   run_obj, ctor_outcome, op_outcome, service, until, signal, telemetry,
                   race, executed, worker_arg>>

(***************************************************************************)
(* Environment: the futures driven by the runtime                          *)
(***************************************************************************)
\* The node's completion future becomes ready, with success or an error.
service_completes ==
    /\ service.life = "alive"
    /\ service.ready = "pending"
    /\ \E r \in {"ok", "err"} : service' = [service EXCEPT !.ready = r]
    /\ UNCHANGED <<cmd, spec_id, spec_data, loaded, custom_config, config, ctor_config,
                   run_obj, pc, runtime, ctor_outcome, op_outcome, until, signal, informant,
                   telemetry, race, executed, worker_arg, trace, result>>

\* The exit trigger becomes ready, with success or an error.
until_completes ==
    /\ until.life \in {"trigger", "exit_future"}
    /\ until.ready = "pending"
    /\ \E r \in {"ok", "err"} : until' = [until EXCEPT !.ready = r]
    /\ UNCHANGED <<cmd, spec_id, spec_data, loaded, custom_config, config, ctor_config,
                   run_obj, pc, runtime, ctor_outcome, op_outcome, service, signal,
                   informant, telemetry, race, executed, worker_arg, trace,
                   result>>

\* Line 226: exit.until(informant) ends once it observes the fired signal.
informant_exit ==
    /\ informant = "running"
    /\ signal.fired
    /\ informant' = "stopped"
    /\ UNCHANGED <<cmd, spec_id, spec_data, loaded, custom_config, config, ctor_config,
                   run_obj, pc, runtime, ctor_outcome, op_outcome, service, until, signal,
                   telemetry, race, executed, worker_arg, trace, result>>

(***************************************************************************)
(* OtherRun::run_until: lines 190-208, one action per arm of the match     *)
(***************************************************************************)
\* The frame of every arm: nothing of the node lifecycle is touched.
OtherRun_frame ==
    UNCHANGED <<cmd, spec_id, spec_data, custom_config, config, ctor_config,
                run_obj, runtime, ctor_outcome, op_outcome, service, signal,
                informant, telemetry, race>>

\* cmd.run(load_spec) of lines 194 and 199: the command resolves the chain
\* specification and performs its operation, which succeeds or fails.
OtherRun_run(inner) ==
    /\ pc = "dispatched"
    /\ run_obj.kind = "Other"
    /\ run_obj.inner = inner
    /\ executed' = [executed EXCEPT !["OneShot"] = @ + 1]
    /\ loaded' = load_spec(spec_id, spec_data)
    /\ trace' = Append(trace, "load_spec")
    /\ IF load_spec(spec_id, spec_data).ok
       THEN result' = IF op_outcome = "ok" THEN "Ok" ELSE "Err_Op"
       ELSE result' = "Err_Spec"
    /\ pc' = "done"
    /\ UNCHANGED <<until, worker_arg>>
    /\ OtherRun_frame

\* cmd.run_with_builder(|config| Ok(service::new_chain_ops(config)?), load_spec
\* [, until]) of lines 195-201: the configuration is resolved with load_spec,
\* the builder is called with it, then the operation runs; with_exit tells
\* whether `until` is handed over and turned into an exit future.
OtherRun_run_with_builder(inner, with_exit) ==
    /\ pc = "dispatched"
    /\ run_obj.kind = "Other"
    /\ run_obj.inner = inner
    /\ executed' = [executed EXCEPT !["OneShot"] = @ + 1]
    /\ loaded' = load_spec(spec_id, spec_data)
    /\ IF ~load_spec(spec_id, spec_data).ok
       THEN /\ trace' = Append(trace, "load_spec")
            /\ result' = "Err_Spec"
            /\ until' = until
       ELSE IF ctor_outcome # "ok"
            THEN /\ trace' = trace \o <<"load_spec", "new_chain_ops">>
                 /\ result' = "Err_ChainOps"
                 /\ until' = until
            ELSE /\ trace' = trace \o <<"load_spec", "new_chain_ops">>
                               \o (IF with_exit THEN <<"into_exit">> ELSE <<>>)
                 /\ until' = IF with_exit
                             THEN [until EXCEPT !.life = "exit_future"]
                             ELSE until
                 /\ result' = IF op_outcome = "ok" THEN "Ok" ELSE "Err_Op"
    /\ pc' = "done"
    /\ UNCHANGED worker_arg
    /\ OtherRun_frame

\* Line 194
OtherRun_BuildSpec == OtherRun_run("BuildSpec")

\* Lines 195-196
OtherRun_Export == OtherRun_run_with_builder("Export", TRUE)

\* Lines 197-198
OtherRun_Import == OtherRun_run_with_builder("Import", TRUE)

\* Variant of OtherRun_Purge: purge-chain goes through the chain-ops builder.
OtherRun_Purge_with_builder == OtherRun_run_with_builder("Purge", FALSE)

\* Line 199
OtherRun_Purge == OtherRun_run("Purge")

\* Variant of OtherRun_Revert: revert-chain is handed the exit trigger.
OtherRun_Revert_with_exit == OtherRun_run_with_builder("Revert", TRUE)

\* Lines 200-201
OtherRun_Revert == OtherRun_run_with_builder("Revert", FALSE)

\* Variant of OtherRun_ValidationWorker: the worker's error is not propagated.
OtherRun_ValidationWorker_ignore_err ==
    /\ pc = "dispatched"
    /\ run_obj.kind = "Other"
    /\ run_obj.inner = "ValidationWorker"
    /\ executed' = [executed EXCEPT !["ValidationWorker"] = @ + 1]
    /\ trace' = Append(trace, "run_validation_worker")
    /\ worker_arg' = cmd.mem_id
    /\ result' = "Ok"
    /\ pc' = "done"
    /\ UNCHANGED <<until, loaded>>
    /\ OtherRun_frame

\* Lines 202-205: service::run_validation_worker(&args.mem_id)?; Ok(())
OtherRun_ValidationWorker ==
    /\ pc = "dispatched"
    /\ run_obj.kind = "Other"
    /\ run_obj.inner = "ValidationWorker"
    /\ executed' = [executed EXCEPT !["ValidationWorker"] = @ + 1]
    /\ trace' = Append(trace, "run_validation_worker")
    /\ worker_arg' = cmd.mem_id
    /\ result' = IF op_outcome = "ok" THEN "Ok" ELSE "Err_Worker"
    /\ pc' = "done"
    /\ UNCHANGED <<until, loaded>>
    /\ OtherRun_frame

(***************************************************************************)
(* Specification                                                           *)
(***************************************************************************)
Next ==
    \/ run
    \/ NodeRun_run_until
    \/ NodeRun_closure
    \/ NodeRun_construct
    \/ rue_signal
    \/ rue_informant
    \/ rue_telemetry
    \/ rue_select
    \/ rue_block_on
    \/ rue_fire
    \/ rue_return
    \/ rue_drop_runtime
    \/ service_completes
    \/ until_completes
    \/ informant_exit
    \/ OtherRun_BuildSpec
    \/ OtherRun_Export
    \/ OtherRun_Import
    \/ OtherRun_Purge
    \/ OtherRun_Revert
    \/ OtherRun_ValidationWorker

Spec == Init /\ [][Next]_vars

\* The invoking thread keeps running once block_on has returned, and the
\* runtime keeps scheduling the informant task once the signal has woken it.
FairSpec ==
    /\ Spec
    /\ WF_vars(rue_fire)
    /\ WF_vars(rue_return)
    /\ WF_vars(rue_drop_runtime)
    /\ WF_vars(informant_exit)

TypeOK ==
    /\ pc \in {"parsed", "dispatched", "closure", "match_roles", "rue_signal",
               "rue_informant", "rue_telemetry", "rue_select", "rue_block_on",
               "rue_fire", "rue_return", "rue_drop_runtime", "done"}
    /\ telemetry \in {"none", "held", "released"}
    /\ informant \in {"none", "running", "stopped", "dropped"}
    /\ service.ready \in Readiness
    /\ until.ready \in Readiness

(***************************************************************************)
(* Properties of the shutdown protocol                                     *)
(***************************************************************************)
\* The shutdown protocol has been entered (run_until_exit was called).
InProtocol ==
    pc \in {"rue_signal", "rue_informant", "rue_telemetry", "rue_select",
            "rue_block_on", "rue_fire", "rue_return", "rue_drop_runtime"}

\* run_until_exit has returned.
ProtocolReturned == pc = "done" /\ signal.created

\* C1: the race resolves, then the exit signal is fired, then the telemetry
\* guard is released, in this order and in no other; the guard is held during
\* the whole race and every execution that returns went through all three.
C1_ShutdownOrder ==
    /\ pc \in {"rue_select", "rue_block_on", "rue_fire"} => telemetry = "held"
    /\ race.winner = None => (~signal.fired /\ telemetry # "released")
    /\ ~signal.fired => telemetry # "released"
    /\ Count(trace, "fire") > 0 => Before(trace, "race_resolved", "fire")
    /\ Count(trace, "drop_telemetry") > 0 =>
          /\ Before(trace, "telemetry", "race_resolved")
          /\ Before(trace, "fire", "drop_telemetry")
    /\ ProtocolReturned =>
          /\ Count(trace, "race_resolved") = 1
          /\ Count(trace, "fire") = 1
          /\ Count(trace, "drop_telemetry") = 1
          /\ telemetry = "released"

\* C1 witness: run_until_exit returned after the guard was released.
C1_Witness ==
    /\ ProtocolReturned
    /\ telemetry = "released"
    /\ Before(trace, "race_resolved", "fire")
    /\ Before(trace, "fire", "drop_telemetry")

\* C2: the exit signal is fired exactly once: never before the race has
\* resolved, and once after it, whichever branch won and whatever it yielded.
C2_FiredExactlyOnce ==
    /\ signal.fires <= 1
    /\ signal.fires = Count(trace, "fire")
    /\ signal.fired <=> signal.fires = 1
    /\ race.winner = None => signal.fires = 0
    /\ (pc \in {"rue_return", "rue_drop_runtime"} \/ ProtocolReturned) =>
          /\ race.winner \in {"service", "exit"}
          /\ race.result \in {"Ok", "Err_Service", "Err_Other"}
          /\ signal.fires = 1

\* C2 witness: the exit trigger won the race with an error and the signal was
\* fired once.
C2_Witness ==
    /\ ProtocolReturned
    /\ race.winner = "exit"
    /\ race.result = "Err_Other"
    /\ signal.fires = 1

\* C3: when the node's completion future wins the race with an error, that
\* error, wrapped as a service error, is what the shutdown protocol returns.
C3_ServiceErrorReturned ==
    (ProtocolReturned /\ race.winner = "service" /\ race.result = "Err_Service")
        => result = "Err_Service"

\* C4: when the exit trigger wins the race with an error, that error, wrapped
\* as an exit-trigger error, is what the shutdown protocol returns.
C4_ExitTriggerErrorReturned ==
    (ProtocolReturned /\ race.winner = "exit" /\ race.result = "Err_Other")
        => result = "Err_Other"

(***************************************************************************)
(* Properties of the dispatch and of node construction                     *)
(***************************************************************************)
\* The Run value each ParseAndPrepare variant must become.
RunTable ==
    {<<"Run", "Node", "Run">>,
     <<"BuildSpec", "Other", "BuildSpec">>,
     <<"ExportBlocks", "Other", "Export">>,
     <<"ImportBlocks", "Other", "Import">>,
     <<"PurgeChain", "Other", "Purge">>,
     <<"RevertChain", "Other", "Revert">>,
     <<"CustomCommand_ValidationWorker", "Other", "ValidationWorker">>}

\* The one-shot maintenance commands.
Maintenance ==
    {"BuildSpec", "ExportBlocks", "ImportBlocks", "PurgeChain", "RevertChain"}

\* The execution path a command belongs to.
PathOf(variant) ==
    IF variant = "Run" THEN "RunNode"
    ELSE IF variant \in Maintenance THEN "OneShot"
    ELSE "ValidationWorker"

\* Number of execution paths entered so far.
TotalExecuted ==
    executed["RunNode"] + executed["OneShot"] + executed["ValidationWorker"]

\* Number of node constructor calls so far.
CtorCalls == Count(trace, "new_full") + Count(trace, "new_light")

\* C5: exactly one of the RunNode, one-shot maintenance and ValidationWorker
\* paths runs per invocation, the one of the parsed command; run() maps Run to
\* Run::Node and every other variant to its OtherRunInner variant.
C5_ExactlyOnePath ==
    /\ TotalExecuted <= 1
    /\ \A p \in Paths : executed[p] > 0 => p = PathOf(cmd.variant)
    /\ pc = "done" => TotalExecuted = 1
    /\ pc # "parsed" => <<cmd.variant, run_obj.kind, run_obj.inner>> \in RunTable

\* C5 witness: a maintenance command ran its one-shot path and nothing else.
C5_Witness ==
    /\ pc = "done"
    /\ cmd.variant = "PurgeChain"
    /\ executed = [p \in Paths |-> IF p = "OneShot" THEN 1 ELSE 0]

\* C6 as stated: every RunNode invocation that entered the closure of
\* NodeRun::run_until has called exactly one constructor, the one of its roles,
\* by the time it returns.
C6_Original ==
    (pc = "done" /\ executed["RunNode"] = 1 /\ Count(trace, "Runtime::new") = 1)
        => /\ CtorCalls = 1
           /\ Count(trace, "new_light") = 1 <=> config.roles = "LIGHT"

\* C6 amended: no invocation calls more than one constructor; once the runtime
\* has been created exactly one constructor is called, new_light when roles
\* equal LIGHT and new_full for any other roles; when that constructor
\* succeeds the shutdown protocol is entered with the node it returned.
C6_ConstructorOnce ==
    /\ CtorCalls <= 1
    /\ runtime \notin {"running", "dropped"} => CtorCalls = 0
    /\ (runtime \in {"running", "dropped"} /\ pc # "match_roles") =>
          /\ CtorCalls = 1
          /\ Count(trace, "new_light") = 1 <=> config.roles = "LIGHT"
          /\ Count(trace, "new_full") = 1 <=> config.roles # "LIGHT"
          /\ ctor_outcome = "ok" => (InProtocol \/ ProtocolReturned)
    /\ (InProtocol \/ ProtocolReturned) =>
          /\ ctor_outcome = "ok"
          /\ service.kind = IF config.roles = "LIGHT" THEN "new_light" ELSE "new_full"
          /\ Count(trace, service.kind) = 1

\* C6 witness: roles other than LIGHT and FULL built a full node, with which
\* the shutdown protocol was entered.
C6_Witness ==
    /\ InProtocol
    /\ config.roles = "AUTHORITY"
    /\ service.kind = "new_full"
    /\ CtorCalls = 1

\* C7: when the selected constructor fails, NodeRun::run_until returns the
\* error at once: no exit signal, no informant, no telemetry guard, the exit
\* trigger untouched, no second constructor call.
C7_ConstructionErrorImmediate ==
    (CtorCalls > 0 /\ ctor_outcome = "err") =>
        /\ pc = "done"
        /\ result = "Err_Construction"
        /\ CtorCalls = 1
        /\ trace[Len(trace)] \in {"new_full", "new_light"}
        /\ ~signal.created
        /\ signal.fires = 0
        /\ informant = "none"
        /\ telemetry = "none"
        /\ service.life = "none"
        /\ until.life = "trigger"
        /\ until.polls = 0
        /\ race.winner = None

\* C7 witness: a constructor was called, failed, and the error was returned.
C7_Witness ==
    /\ pc = "done"
    /\ result = "Err_Construction"
    /\ CtorCalls = 1

\* After the race: the winner was ready, the loser is dropped and has not been
\* polled since the poll that decided the race.
C8_LoserDropped ==
    /\ race.winner = "service" =>
          /\ service.ready # "pending"
          /\ service.life = "consumed"
          /\ until.life = "dropped"
          /\ until.polls = race.loser_polls
    /\ race.winner = "exit" =>
          /\ until.ready # "pending"
          /\ until.life = "consumed"
          /\ service.ready = "pending"
          /\ service.life = "dropped"
          /\ service.polls = race.loser_polls
    /\ ProtocolReturned => signal.fired /\ race.winner # None

\* A poll of the race: a ready service wins without the exit trigger being
\* polled, otherwise a ready exit trigger wins, otherwise the race goes on.
C8_PollStep ==
    (pc = "rue_block_on" /\ service'.polls > service.polls) =>
        IF service.ready # "pending"
        THEN race'.winner = "service" /\ until'.polls = until.polls
                                      /\ pc' = "rue_fire"
        ELSE IF until.ready # "pending"
        THEN race'.winner = "exit" /\ pc' = "rue_fire"
        ELSE race' = race /\ pc' = pc

\* C8: the race is decided by the side that is ready first, and the loser is
\* never awaited: it is dropped unpolled and the signal is still fired.
C8_RaceFirstWins == []C8_LoserDropped /\ [][C8_PollStep]_vars

\* C8 witness: the node's completion future won, the exit trigger never
\* completed and was dropped, and the signal was fired.
C8_Witness ==
    /\ ProtocolReturned
    /\ race.winner = "service"
    /\ until.ready = "pending"
    /\ until.life = "dropped"
    /\ signal.fired

\* C9: a validation-worker invocation calls run_validation_worker with the
\* given mem_id and returns its outcome; it calls no constructor and no
\* chain-ops builder, and touches no exit signal, informant or telemetry guard.
C9_ValidationWorkerIsolated ==
    cmd.variant = "CustomCommand_ValidationWorker" =>
        /\ Len(trace) <= 1
        /\ \A i \in 1..Len(trace) : trace[i] = "run_validation_worker"
        /\ ~signal.created
        /\ signal.fires = 0
        /\ informant = "none"
        /\ telemetry = "none"
        /\ runtime = "none"
        /\ service.life = "none"
        /\ until.life = "trigger"
        /\ pc = "done" =>
              /\ trace = <<"run_validation_worker">>
              /\ worker_arg = cmd.mem_id
              /\ result = IF op_outcome = "ok" THEN "Ok" ELSE "Err_Worker"

\* C9 witness: the validation worker failed and its error was returned.
C9_Witness ==
    /\ cmd.variant = "CustomCommand_ValidationWorker"
    /\ pc = "done"
    /\ worker_arg = cmd.mem_id
    /\ result = "Err_Worker"

\* C10: no maintenance command calls new_full or new_light or enters the
\* shutdown protocol; purge-chain and build-spec use only load_spec, and
\* export-blocks, import-blocks and revert-chain build through new_chain_ops.
C10_MaintenanceNoNode ==
    cmd.variant \in Maintenance =>
        /\ CtorCalls = 0
        /\ ~InProtocol
        /\ ~signal.created
        /\ informant = "none"
        /\ telemetry = "none"
        /\ runtime = "none"
        /\ service.life = "none"
        /\ cmd.variant \in {"PurgeChain", "BuildSpec"} =>
              /\ \A i \in 1..Len(trace) : trace[i] = "load_spec"
              /\ pc = "done" => trace = <<"load_spec">>
        /\ cmd.variant \in {"ExportBlocks", "ImportBlocks", "RevertChain"} =>
              /\ \A i \in 1..Len(trace) :
                    trace[i] \in {"load_spec", "new_chain_ops", "into_exit"}
              /\ Count(trace, "new_chain_ops") <= 1
              /\ (pc = "done" /\ result \in {"Ok", "Err_Op"}) =>
                    Count(trace, "new_chain_ops") = 1

\* C10 witness: purge-chain ran to completion with the loader only.
C10_Witness ==
    /\ cmd.variant = "PurgeChain"
    /\ pc = "done"
    /\ result = "Ok"
    /\ trace = <<"load_spec">>

(***************************************************************************)
(* Properties of a whole node run                                          *)
(***************************************************************************)
\* C11: a node run whose exit trigger completes with success returns success;
\* with roles LIGHT, new_light is the only constructor called; and when control
\* returns the informant task has ended, the telemetry guard has been released
\* exactly once and the runtime with its spawned tasks is gone.
C11_LightWorkerDone ==
    /\ (ProtocolReturned /\ until.ready = "ok") => result = "Ok"
    /\ (ProtocolReturned /\ race.winner = "exit" /\ race.result = "Ok") =>
          result = "Ok"
    /\ (ProtocolReturned /\ config.roles = "LIGHT" /\ until.ready = "ok") =>
          /\ Count(trace, "new_light") = 1
          /\ Count(trace, "new_full") = 0
          /\ Count(trace, "new_chain_ops") = 0
          /\ informant \in {"stopped", "dropped"}
          /\ Count(trace, "spawn_informant") = 1
          /\ telemetry = "released"
          /\ Count(trace, "drop_telemetry") = 1
          /\ runtime = "dropped"

\* C11 witness: a light node whose exit trigger was ready with success at the
\* first poll returned success after the informant had stopped.
C11_Witness ==
    /\ ProtocolReturned
    /\ config.roles = "LIGHT"
    /\ race.winner = "exit"
    /\ race.result = "Ok"
    /\ service.polls = 1
    /\ informant = "stopped"
    /\ result = "Ok"

(***************************************************************************)
(* Properties of load_spec                                                 *)
(***************************************************************************)
\* C12: once load_spec has been called, what it returned is Ok(None) when
\* ChainSpec::from knows no specification of the id, Err when the id is known
\* and its load fails, and Ok(Some(spec)) with the loaded specification
\* otherwise; an unknown id is never an error, a failed load never Ok(None).
C12_LoadSpec ==
    Count(trace, "load_spec") > 0 =>
        /\ ChainSpec_from(spec_id) = None =>
              loaded = [ok |-> TRUE, val |-> None]
        /\ (ChainSpec_from(spec_id) # None /\ spec_data = "corrupt") =>
              /\ ~loaded.ok
              /\ pc = "done"
              /\ result = "Err_Spec"
        /\ (ChainSpec_from(spec_id) # None /\ spec_data = "good") =>
              loaded = [ok |-> TRUE, val |-> spec_id]
        /\ (loaded.ok /\ loaded.val = None) => spec_id \notin KnownIds
        /\ ~loaded.ok => spec_id \in KnownIds

\* C12 witness: a known id whose specification is corrupt made load_spec
\* return an error, which ended the command.
C12_Witness ==
    /\ Count(trace, "load_spec") = 1
    /\ spec_id = "local"
    /\ spec_data = "corrupt"
    /\ ~loaded.ok
    /\ result = "Err_Spec"

(***************************************************************************)
(* Properties of the informant task and of the exit signal                 *)
(***************************************************************************)
\* The informant is spawned after the signal is created and before the race,
\* runs during the whole race, stops only on a fired signal, and is gone when
\* run_until_exit has returned.
C13_InformantScoped ==
    /\ pc \in {"rue_telemetry", "rue_select", "rue_block_on"} =>
          informant = "running"
    /\ pc \in {"rue_fire", "rue_return", "rue_drop_runtime"} =>
          informant \in {"running", "stopped"}
    /\ informant = "stopped" => signal.fired
    /\ Count(trace, "into_exit") > 0 /\ signal.created =>
          /\ Before(trace, "signal", "spawn_informant")
          /\ Before(trace, "spawn_informant", "into_exit")
          /\ Count(trace, "spawn_informant") = 1
    /\ ProtocolReturned =>
          /\ informant \in {"stopped", "dropped"}
          /\ runtime = "dropped"

\* C13: the informant is spawned before the race, bound to the exit signal;
\* once the signal has been fired the informant eventually ends, and no
\* spawned task is left running when run_until_exit returns.
C13_InformantEnds ==
    /\ []C13_InformantScoped
    /\ (signal.fired ~> informant \in {"stopped", "dropped"})

\* C13 witness: the informant saw the fired signal and stopped before
\* run_until_exit returned.
C13_Witness ==
    /\ pc = "rue_return"
    /\ signal.fired
    /\ informant = "stopped"

\* A step never un-fires the signal nor fires it again, and a listener that
\* has seen it fired stays stopped.
C14_FiredStep ==
    /\ signal.fired => (signal'.fired /\ signal'.fires = signal.fires)
    /\ signal.created => signal'.created
    /\ informant = "stopped" => (informant' = "stopped" /\ signal'.fired)

\* C14: the fired state of the exit signal is monotonic: once fired it stays
\* fired, a listener that observed it fired never sees it un-fired, and there
\* is no second fire event.
C14_FiredMonotonic ==
    /\ [][C14_FiredStep]_vars
    /\ [](informant = "stopped" => signal.fired)
    /\ [](signal.fires <= 1)

\* C14 witness: the informant observed the fired signal, and the signal is
\* still fired when the invocation has ended.
C14_Witness ==
    /\ pc = "done"
    /\ signal.fired
    /\ signal.fires = 1
    /\ informant = "stopped"

\* C15: the telemetry guard outlives the node: whichever side wins, the node
\* is consumed by the race and gone once the race has resolved, while the
\* guard is still held; the guard is released only after the node is gone
\* and the signal has been fired.
C15_TelemetryOutlivesNode ==
    /\ race.winner # None => service.life \in {"consumed", "dropped"}
    /\ service.life = "alive" => telemetry \in {"none", "held"}
    /\ pc \in {"rue_fire", "rue_return"} =>
          /\ service.life \in {"consumed", "dropped"}
          /\ telemetry = "held"
    /\ telemetry = "released" =>
          /\ service.life \in {"consumed", "dropped"}
          /\ signal.fired
          /\ Before(trace, "race_resolved", "drop_telemetry")
          /\ Before(trace, "fire", "drop_telemetry")

\* C15 witness: the exit trigger won, the node was dropped unfinished, and the
\* guard is still held after the signal has been fired.
C15_Witness ==
    /\ pc = "rue_return"
    /\ race.winner = "exit"
    /\ service.life = "dropped"
    /\ service.ready = "pending"
    /\ signal.fired
    /\ telemetry = "held"

(***************************************************************************)
(* Properties of the configuration                                         *)
(***************************************************************************)
\* The constructor, once called, has received the configuration as it is,
\* with the supplied custom configuration in it.
C16_ConstructorConfig ==
    /\ pc \in {"parsed", "dispatched", "closure"} => CtorCalls = 0
    /\ CtorCalls > 0 =>
          /\ ctor_config = config
          /\ ctor_config.custom = custom_config
          /\ ctor_config.chain_spec = spec_id
          /\ ctor_config.roles \in RolesValues
          /\ Count(trace, "new_light") = 1 <=> ctor_config.roles = "LIGHT"

\* The closure's step sets the custom field and nothing else of the
\* configuration; no other step changes the configuration, and nothing
\* changes it or the constructor's copy after the constructor was called.
C16_ConfigStep ==
    /\ (pc = "closure" /\ pc' # pc) =>
          /\ config'.custom = custom_config
          /\ config'.chain_spec = config.chain_spec
          /\ config'.name = config.name
          /\ config'.roles = config.roles
    /\ ~(pc = "closure" /\ pc' # pc) => config' = config
    /\ CtorCalls > 0 => (config' = config /\ ctor_config' = ctor_config)
    /\ custom_config' = custom_config

\* C16: the supplied custom configuration is stored before any constructor is
\* called, whatever the field held; the constructor receives it with every
\* other field unchanged; the configuration is not changed afterwards.
C16_CustomConfig == []C16_ConstructorConfig /\ [][C16_ConfigStep]_vars

\* C16 witness: a light node was constructed with the supplied custom
\* configuration.
C16_Witness ==
    /\ pc = "rue_signal"
    /\ custom_config = "worker"
    /\ ctor_config.custom = "worker"
    /\ ctor_config.roles = "LIGHT"
    /\ ctor_config.chain_spec = spec_id

(***************************************************************************)
(* Properties of the results                                               *)
(***************************************************************************)
\* C17: once the node has been constructed, run_until_exit returns Ok(()) on
\* every execution that returns, whichever side won the race and whatever it
\* yielded: no error of the race ever reaches the caller.
C17_AlwaysOk ==
    /\ ProtocolReturned =>
          /\ race.winner \in {"service", "exit"}
          /\ result = "Ok"
    /\ result \notin {"Err_Service", "Err_Other"}
    /\ (InProtocol \/ ProtocolReturned) => result \in {None, "Ok"}

\* C17 witness: the node's completion future won the race with an error and
\* run_until_exit returned Ok(()).
C17_Witness ==
    /\ ProtocolReturned
    /\ race.winner = "service"
    /\ race.result = "Err_Service"
    /\ result = "Ok"

(***************************************************************************)
(* Properties of the exit trigger in OtherRun::run_until                   *)
(***************************************************************************)
\* The commands whose arm of OtherRun::run_until does not use `until`.
NoExitCommands ==
    {"BuildSpec", "PurgeChain", "RevertChain", "CustomCommand_ValidationWorker"}

\* The chain specification of the command line fails to load.
SpecFails == spec_id \in KnownIds /\ spec_data = "corrupt"

\* What a command without exit trigger returns, from the command line and the
\* collaborators' outcomes alone.
ExpectedResult ==
    IF cmd.variant = "CustomCommand_ValidationWorker"
    THEN (IF op_outcome = "ok" THEN "Ok" ELSE "Err_Worker")
    ELSE IF SpecFails THEN "Err_Spec"
    ELSE IF cmd.variant = "RevertChain" /\ ctor_outcome = "err" THEN "Err_ChainOps"
    ELSE IF op_outcome = "ok" THEN "Ok" ELSE "Err_Op"

\* The operations a command without exit trigger performs, from the command
\* line and the collaborators' outcomes alone.
ExpectedTrace ==
    IF cmd.variant = "CustomCommand_ValidationWorker"
    THEN <<"run_validation_worker">>
    ELSE IF cmd.variant = "RevertChain" /\ ~SpecFails
    THEN <<"load_spec", "new_chain_ops">>
    ELSE <<"load_spec">>

\* C18: for build-spec, purge-chain, revert-chain and validation-worker the
\* exit trigger is never turned into an exit future nor polled, and the
\* operations performed and the result returned are the same whatever the
\* exit trigger does; of the other commands only export-blocks and
\* import-blocks are handed the exit trigger.
C18_ExitTriggerIgnored ==
    /\ cmd.variant \in NoExitCommands =>
          /\ until.life = "trigger"
          /\ until.polls = 0
          /\ Count(trace, "into_exit") = 0
          /\ pc = "done" =>
                /\ result = ExpectedResult
                /\ trace = ExpectedTrace
    /\ (cmd.variant # "Run" /\ until.life # "trigger") =>
          cmd.variant \in {"ExportBlocks", "ImportBlocks"}
    /\ (cmd.variant \in {"ExportBlocks", "ImportBlocks"} /\ pc = "done"
           /\ result \in {"Ok", "Err_Op"}) =>
          /\ until.life = "exit_future"
          /\ Count(trace, "into_exit") = 1

\* C18 witness: revert-chain succeeded although the exit trigger had failed,
\* without the trigger being touched.
C18_Witness ==
    /\ cmd.variant = "RevertChain"
    /\ pc = "done"
    /\ until.ready = "err"
    /\ until.life = "trigger"
    /\ result = "Ok"
    /\ trace = <<"load_spec", "new_chain_ops">>

====
